---- MODULE Spec2Model ----
(***************************************************************************)
(* A model of multicall/utils.py: the chain-id cache, the async-adapter    *)
(* cache, event-loop acquisition, the exception-aggregating gather and the *)
(* per-loop semaphore.  Each helper is an independent leaf utility, so     *)
(* each gets its own specification over its own group of variables; the    *)
(* variables of the other groups stay at their initial values.             *)
(***************************************************************************)
EXTENDS Integers, Sequences, FiniteSets, TLC

None == "None"

\* ---- bounds -------------------------------------------------------------
\* largest number of coroutines handed to gather
MaxOps == 3
\* connection handles the callers hold
NumW3 == 2
\* distinct chain ids a node may report
MaxChain == 2
\* reads of w.eth.chain_id per handle
MaxQueries == 2
\* event loops that may become current while _get_semaphore is in use
NumLoops == 3
\* semaphores created
MaxSems == 4
\* threads calling get_event_loop
NumThreads == 2
\* event loops created for get_event_loop's threads
MaxLoops == 3
\* largest request timeout, in seconds
MaxTimeout == 2
\* adapters constructed for one handle
MaxBuilt == 2
\* connection handles passed to get_async_w3, besides the adapters it makes
NumHandles == 1

VARIABLES
    \* gather (lines 120-133)
    plan,        \* plan[i]: how coroutine i will end (the input)
    opState,     \* opState[i]: "created" | "running" | "done"
    results,     \* the result list asyncio.gather builds
    order,       \* positions in the order the coroutines finished in time
    gpc,         \* gather's position: "idle" | "awaiting" | "raised" | "returned"
    gout,        \* the exception gather raised, the list it returned
    \* chain_id (lines 30-42)
    chainids,    \* the module-level dict: a function on the keys it holds
    nodeVal,     \* what the node behind each handle reports now
    pending,     \* the handle auto_retry is retrying: {} or {w}
    queries,     \* reads of w.eth.chain_id per handle
    first,       \* what the first successful call returned, per handle
                 \* that has had one
    clast,       \* the last attempt: handle, kind, value returned, value read
    \* get_async_w3 (lines 45-94)
    AIOHTTP_TIMEOUT,      \* total of the imported constant (lines 12-17)
    WebsocketProviderV2,  \* whether the import at lines 24-27 succeeded
    w3,          \* every handle that exists, with its attributes
    async_w3s,   \* the module-level dict, None for an absent key
    built,       \* per handle, how many adapters were constructed for it
    called,      \* the handles get_async_w3 has been called with
    handedA,     \* every (handle, returned adapter) pair so far
    alast,       \* the last call: handle, outcome, returned handle
    \* _get_semaphore (lines 142-150)
    curLoop,     \* the current event loop, 0 when there is none
    semCache,    \* the lru_cache's entries, the most recently used last
    madeUnder,   \* per semaphore created, the loop it was created under
    handedS,     \* every (current loop, returned semaphore) pair so far
    slast,       \* the last call that returned (loop, semaphore, whether
                 \* line 150 ran), and whether the very last call raised
    \* get_event_loop (lines 97-105)
    current,     \* per thread, its current event loop, 0 when it has none
    nloops,      \* event loops that exist
    lcreated,    \* per thread, loops get_event_loop created since the
                 \* thread's loop was last changed from outside
    lret,        \* per thread, the loop returned since that change
    llast        \* the last call

gvars == <<plan, opState, results, order, gpc, gout>>
cvars == <<chainids, nodeVal, pending, queries, first, clast>>
avars == <<AIOHTTP_TIMEOUT, WebsocketProviderV2, w3, async_w3s, built, called, handedA, alast>>
svars == <<curLoop, semCache, madeUnder, handedS, slast>>
lvars == <<current, nloops, lcreated, lret, llast>>

vars == <<gvars, cvars, avars, svars, lvars>>

\* =========================================================================
\* gather, raise_if_exception, raise_if_exception_in        (lines 120-133)
\* =========================================================================

\* The Python classes an object can belong to, as far as isinstance(obj,
\* Exception) tells them apart: a plain value, an instance of Exception (or
\* of a subclass), an instance of BaseException that is no Exception
\* (asyncio.CancelledError since Python 3.8).
Classes == {"plain", "Exception", "BaseException"}

\* How a coroutine ends: it returns an object or raises one; only exception
\* objects can be raised.
Outcomes ==
    [how : {"return"}, cls : Classes] \cup
    [how : {"raise"}, cls : {"Exception", "BaseException"}]

\* The object coroutine i produces; id tells objects of one class apart.
ObjectOf(i, outcome) == [cls |-> outcome.cls, id |-> i]

NoObject == [cls |-> None, id |-> 0]

\* line 121: isinstance(obj, Exception)
IsException(obj) == obj.cls = "Exception"

\* lines 125-127: the position of the first object of the iterable that
\* raise_if_exception raises; 0 when the loop runs to its end.
RECURSIVE FirstRaisedFrom(_, _)
FirstRaisedFrom(seq, k) ==
    IF k > Len(seq) THEN 0
    ELSE IF IsException(seq[k]) THEN k
    ELSE FirstRaisedFrom(seq, k + 1)

raise_if_exception_in(seq) == FirstRaisedFrom(seq, 1)

\* A gather without return_exceptions=True: the first failure ends the await.
GatherReadyEager ==
    \/ \A i \in DOMAIN opState : opState[i] = "done"
    \/ \E i \in DOMAIN opState : opState[i] = "done" /\ plan[i].how = "raise"

\* line 131: `await asyncio.gather(*coroutines, return_exceptions=True)`
\* completes when every child has finished; a child's exception is stored in
\* the result list instead of being propagated.
GatherReady == \A i \in DOMAIN opState : opState[i] = "done"

GInit ==
    /\ \E n \in 0..MaxOps : plan \in [1..n -> Outcomes]
    /\ opState = [i \in DOMAIN plan |-> "created"]
    /\ results = [i \in DOMAIN plan |-> NoObject]
    /\ order = <<>>
    /\ gpc = "idle"
    /\ gout = [exc |-> NoObject, ret |-> <<>>]

GOff ==
    /\ plan = <<>>
    /\ opState = <<>>
    /\ results = <<>>
    /\ order = <<>>
    /\ gpc = "idle"
    /\ gout = [exc |-> NoObject, ret |-> <<>>]

\* line 131, the call: asyncio.gather wraps every coroutine in a task.
GatherCall ==
    /\ gpc = "idle"
    /\ gpc' = "awaiting"
    /\ opState' = [i \in DOMAIN plan |-> "running"]
    /\ UNCHANGED <<plan, results, order, gout>>
    /\ UNCHANGED <<cvars, avars, svars, lvars>>

\* A task runs to its end; with return_exceptions=True its return value or
\* its exception lands at its position of the result list.
OpFinish(i) ==
    /\ gpc = "awaiting"
    /\ opState[i] = "running"
    /\ opState' = [opState EXCEPT ![i] = "done"]
    /\ results' = [results EXCEPT ![i] = ObjectOf(i, plan[i])]
    /\ order' = Append(order, i)
    /\ UNCHANGED <<plan, gpc, gout>>
    /\ UNCHANGED <<cvars, avars, svars, lvars>>

\* lines 131-132: the await completes and raise_if_exception_in raises.
GatherRaise ==
    /\ gpc = "awaiting"
    /\ GatherReady
    /\ raise_if_exception_in(results) # 0
    /\ gpc' = "raised"
    /\ gout' = [exc |-> results[raise_if_exception_in(results)], ret |-> <<>>]
    /\ UNCHANGED <<plan, opState, results, order>>
    /\ UNCHANGED <<cvars, avars, svars, lvars>>

\* lines 131-133: the await completes, nothing is raised, results returned.
GatherReturn ==
    /\ gpc = "awaiting"
    /\ GatherReady
    /\ raise_if_exception_in(results) = 0
    /\ gpc' = "returned"
    /\ gout' = [exc |-> NoObject, ret |-> results]
    /\ UNCHANGED <<plan, opState, results, order>>
    /\ UNCHANGED <<cvars, avars, svars, lvars>>

\* =========================================================================
\* chainids, chain_id                                         (lines 30-42)
\* =========================================================================

W3s == 1..NumW3
ChainValues == 1..MaxChain

\* d[k] = v on a dict
Put(d, k, v) == [x \in DOMAIN d \cup {k} |-> IF x = k THEN v ELSE d[x]]

\* What reading w.eth.chain_id does: the node answers, or the read raises.
Answer(v) == [ok |-> TRUE, val |-> v]
Failure == [ok |-> FALSE, val |-> 0]

\* A chain_id that skips the lookup in chainids and always asks the node.
chain_id_uncached(c, w, resp) ==
    IF ~resp.ok
    THEN [cache |-> c, read |-> TRUE, raised |-> TRUE, ret |-> 0]
    ELSE [cache |-> Put(c, w, resp.val), read |-> TRUE, raised |-> FALSE,
          ret |-> Put(c, w, resp.val)[w]]

\* A chain_id that leaves a placeholder entry behind when the read raises.
chain_id_placeholder(c, w, resp) ==
    IF w \in DOMAIN c
    THEN [cache |-> c, read |-> FALSE, raised |-> FALSE, ret |-> c[w]]
    ELSE IF ~resp.ok
    THEN [cache |-> Put(c, w, 0), read |-> TRUE, raised |-> TRUE, ret |-> 0]
    ELSE [cache |-> Put(c, w, resp.val), read |-> TRUE, raised |-> FALSE,
          ret |-> Put(c, w, resp.val)[w]]

\* lines 34-42, one execution of the body on the dict c: the dict after it,
\* whether w.eth.chain_id was read, whether it raised, and what it returned.
\* The right-hand side of line 41 is evaluated before the store, so a read
\* that raises stores nothing.
chain_id(c, w, resp) ==
    IF w \in DOMAIN c
    THEN [cache |-> c, read |-> FALSE, raised |-> FALSE, ret |-> c[w]]
    ELSE IF ~resp.ok
    THEN [cache |-> c, read |-> TRUE, raised |-> TRUE, ret |-> 0]
    ELSE [cache |-> Put(c, w, resp.val), read |-> TRUE, raised |-> FALSE,
          ret |-> Put(c, w, resp.val)[w]]

NoAttempt == [w |-> 0, kind |-> "none", ret |-> 0, node |-> 0]

CInit ==
    /\ chainids = <<>>
    /\ nodeVal \in [W3s -> ChainValues]
    /\ pending = {}
    /\ queries = [w \in W3s |-> 0]
    /\ first = <<>>
    /\ clast = NoAttempt

COff ==
    /\ chainids = <<>>
    /\ nodeVal = <<>>
    /\ pending = {}
    /\ queries = <<>>
    /\ first = <<>>
    /\ clast = NoAttempt

\* One attempt of chain_id(w): a fresh call, or the re-invocation that
\* eth_retry.auto_retry (line 33) makes after a transient failure; `retry`
\* says whether auto_retry will invoke the body again after a failure.
ChainIdAttempt(w, resp, retry) ==
    LET r == chain_id(chainids, w, resp) IN
    /\ pending \subseteq {w}
    /\ r.read => queries[w] < MaxQueries
    /\ chainids' = r.cache
    /\ queries' = IF r.read THEN [queries EXCEPT ![w] = @ + 1] ELSE queries
    /\ first' = IF ~r.raised /\ w \notin DOMAIN first
                THEN Put(first, w, r.ret) ELSE first
    /\ pending' = IF r.raised /\ retry THEN {w} ELSE {}
    /\ clast' = [w |-> w,
                 kind |-> IF r.raised THEN "failed"
                          ELSE IF r.read THEN "read" ELSE "cached",
                 ret |-> r.ret,
                 node |-> IF r.read THEN resp.val ELSE 0]
    /\ UNCHANGED nodeVal
    /\ UNCHANGED <<gvars, avars, svars, lvars>>

\* lines 38-39: the key is present, the node is not asked.
ChainIdCached(w) ==
    /\ ~chain_id(chainids, w, Answer(nodeVal[w])).read
    /\ ChainIdAttempt(w, Answer(nodeVal[w]), FALSE)

\* lines 40-42: the key is absent, the node answers.
ChainIdRead(w) ==
    /\ chain_id(chainids, w, Answer(nodeVal[w])).read
    /\ ChainIdAttempt(w, Answer(nodeVal[w]), FALSE)

\* line 41 raises a transient error: auto_retry will call the body again.
ChainIdFailRetry(w) ==
    /\ chain_id(chainids, w, Failure).raised
    /\ ChainIdAttempt(w, Failure, TRUE)

\* line 41 raises and auto_retry gives up: the error reaches the caller.
ChainIdFailRaise(w) ==
    /\ chain_id(chainids, w, Failure).raised
    /\ ChainIdAttempt(w, Failure, FALSE)

\* The node behind w starts reporting another chain id.
NodeChange(w, v) ==
    /\ v # nodeVal[w]
    /\ nodeVal' = [nodeVal EXCEPT ![w] = v]
    /\ UNCHANGED <<chainids, pending, queries, first, clast>>
    /\ UNCHANGED <<gvars, avars, svars, lvars>>

\* =========================================================================
\* async_w3s, get_endpoint, get_async_w3                      (lines 45-94)
\* =========================================================================

UserW3s == 1..NumHandles

\* _request_kwargs["timeout"] of a provider: a plain number, a ClientTimeout
\* with a total, a ClientTimeout whose total is None, or no such key.
TimeoutShapes ==
    [form : {"number", "ClientTimeout"}, total : 0..MaxTimeout] \cup
    [form : {"ClientTimeoutNoTotal", "absent"}, total : {0}]

\* w3.provider: a string, an auto provider (it has _active_provider), or a
\* provider object, whose endpoint_uri may be missing.
ProviderShapes ==
    [form : {"str"}, uri : {"http:", "ws:", "wss:"}] \cup
    [form : {"active", "plain"}, uri : {"http:", "ws:", "wss:", "absent"}]

Shape(a, b, p, t) == [is_async |-> a, async_provider |-> b, prov |-> p, timeout |-> t]

\* The handles a caller may hold: asynchronous ones with any timeout, and
\* ones that fail the test of line 61 with any provider.
W3Shapes ==
    { Shape(TRUE, TRUE, [form |-> "plain", uri |-> "http:"], t) : t \in TimeoutShapes } \cup
    { Shape(FALSE, FALSE, p, [form |-> "absent", total |-> 0]) : p \in ProviderShapes } \cup
    { Shape(a, ~a, [form |-> "plain", uri |-> "http:"], [form |-> "absent", total |-> 0]) :
        a \in BOOLEAN }

\* lines 49-55
get_endpoint(h) ==
    IF h.prov.form = "str" THEN [raised |-> FALSE, uri |-> h.prov.uri]
    ELSE IF h.prov.uri = "absent" THEN [raised |-> TRUE, uri |-> "absent"]
    ELSE [raised |-> FALSE, uri |-> h.prov.uri]

\* line 61
IsAsync(h) == h.is_async /\ h.async_provider

\* lines 62-64: the number compared at line 66; reading it raises when the
\* key is missing, comparing it raises when the total is None.
TimeoutReadable(t) == t.form \in {"number", "ClientTimeout"}

\* lines 66-67 left out: the timeout is never raised to the floor.
AdjustTimeoutNever(t, floor) == t

\* lines 66-67
AdjustTimeout(t, floor) ==
    IF t.total < floor THEN [form |-> "ClientTimeout", total |-> floor] ELSE t

\* lines 72-91: the adapter built for an endpoint.
NewAdapter(uri, floor, wsv2) ==
    Shape(TRUE, TRUE,
          [form |-> IF wsv2 /\ uri \in {"wss:", "ws:"}
                    THEN "WebsocketProviderV2" ELSE "AsyncHTTPProvider",
           uri |-> uri],
          [form |-> "ClientTimeout", total |-> floor])

Raised(c, hs, w) == [cache |-> c, w3 |-> hs, kind |-> "raised", ret |-> w]

\* The rest of get_async_w3 after the cache lookup of lines 59-60.
get_async_w3_miss(c, hs, w, floor, wsv2, fresh) ==
    IF IsAsync(hs[w])
    THEN IF ~TimeoutReadable(hs[w].timeout) THEN Raised(c, hs, w)
         ELSE [cache |-> Put(c, w, w),
               w3 |-> [hs EXCEPT ![w].timeout = AdjustTimeout(@, floor)],
               kind |-> "self", ret |-> w]
    ELSE IF get_endpoint(hs[w]).raised THEN Raised(c, hs, w)
    ELSE [cache |-> Put(c, w, fresh),
          w3 |-> Put(hs, fresh, NewAdapter(get_endpoint(hs[w]).uri, floor, wsv2)),
          kind |-> "built", ret |-> fresh]

\* A get_async_w3 that never looks into async_w3s.
get_async_w3_uncached(c, hs, w, floor, wsv2, fresh) ==
    get_async_w3_miss(c, hs, w, floor, wsv2, fresh)

\* lines 58-94 on the dict c and the handles hs: the dict and the handles
\* after the call, how it ended and the handle it returned.
get_async_w3(c, hs, w, floor, wsv2, fresh) ==
    IF w \in DOMAIN c
    THEN [cache |-> c, w3 |-> hs, kind |-> "cached", ret |-> c[w]]
    ELSE get_async_w3_miss(c, hs, w, floor, wsv2, fresh)

NoCall == [w |-> 0, kind |-> "none", ret |-> 0,
           before |-> [form |-> "absent", total |-> 0]]

AInit ==
    /\ AIOHTTP_TIMEOUT \in 1..MaxTimeout
    /\ WebsocketProviderV2 \in BOOLEAN
    /\ w3 \in [UserW3s -> W3Shapes]
    /\ async_w3s = <<>>
    /\ built = [w \in UserW3s |-> 0]
    /\ called = {}
    /\ handedA = {}
    /\ alast = NoCall

AOff ==
    /\ AIOHTTP_TIMEOUT = 1
    /\ WebsocketProviderV2 = FALSE
    /\ w3 = <<>>
    /\ async_w3s = <<>>
    /\ built = <<>>
    /\ called = {}
    /\ handedA = {}
    /\ alast = NoCall

\* One call get_async_w3(w) that ends the way `kind` says.
GetAsyncW3(w, kind) ==
    LET fresh == Cardinality(DOMAIN w3) + 1
        r == get_async_w3(async_w3s, w3, w, AIOHTTP_TIMEOUT, WebsocketProviderV2, fresh)
    IN
    /\ r.kind = kind
    /\ kind = "built" => w \in UserW3s /\ built[w] < MaxBuilt
    /\ async_w3s' = r.cache
    /\ w3' = r.w3
    /\ built' = IF kind = "built" THEN [built EXCEPT ![w] = @ + 1] ELSE built
    /\ called' = called \cup {w}
    /\ handedA' = IF kind = "raised" THEN handedA ELSE handedA \cup {<<w, r.ret>>}
    /\ alast' = [w |-> w, kind |-> kind, ret |-> r.ret,
                 before |-> w3[w].timeout]
    /\ UNCHANGED <<AIOHTTP_TIMEOUT, WebsocketProviderV2>>
    /\ UNCHANGED <<gvars, cvars, svars, lvars>>

\* lines 59-60
GetAsyncCached(w) ==
    /\ w \in DOMAIN async_w3s
    /\ GetAsyncW3(w, "cached")
\* lines 61-70
GetAsyncSelf(w) ==
    /\ IsAsync(w3[w])
    /\ GetAsyncW3(w, "self")
\* lines 72-94
GetAsyncBuilt(w) ==
    /\ ~IsAsync(w3[w])
    /\ GetAsyncW3(w, "built")
\* line 62, 66 or 55 raises
GetAsyncRaised(w) ==
    /\ ~TimeoutReadable(w3[w].timeout) \/ get_endpoint(w3[w]).raised
    /\ GetAsyncW3(w, "raised")

\* =========================================================================
\* _get_semaphore, __get_semaphore                          (lines 142-150)
\* =========================================================================

Loops == 1..NumLoops

\* line 147: maxsize of the lru_cache
LruMaxsize == 1

\* functools.lru_cache: the position of key among the entries, 0 if absent
RECURSIVE LruFind(_, _, _)
LruFind(cache, key, k) ==
    IF k > Len(cache) THEN 0
    ELSE IF cache[k].key = key THEN k
    ELSE LruFind(cache, key, k + 1)

\* the entries without the one at position k
LruDrop(cache, k) == SubSeq(cache, 1, k - 1) \o SubSeq(cache, k + 1, Len(cache))

\* a new entry is added and the least recently used ones are evicted
LruInsert(cache, e) ==
    LET all == Append(cache, e) IN
    IF Len(all) > LruMaxsize
    THEN SubSeq(all, Len(all) - LruMaxsize + 1, Len(all)) ELSE all

\* A __get_semaphore without the lru_cache: a new Semaphore on every call.
get_semaphore_uncached(cache, loop, fresh) ==
    [cache |-> cache, sem |-> fresh, created |-> TRUE]

\* A __get_semaphore cached without regard to its argument: whatever
\* Semaphore was created last is returned.
get_semaphore_keyless(cache, loop, fresh) ==
    IF Len(cache) > 0
    THEN [cache |-> cache, sem |-> cache[Len(cache)].val, created |-> FALSE]
    ELSE [cache |-> LruInsert(cache, [key |-> loop, val |-> fresh]),
          sem |-> fresh, created |-> TRUE]

\* lines 147-150: __get_semaphore(loop) through its lru_cache; fresh is the
\* Semaphore line 150 would create.
get_semaphore(cache, loop, fresh) ==
    LET k == LruFind(cache, loop, 1) IN
    IF k # 0
    THEN [cache |-> Append(LruDrop(cache, k), cache[k]),
          sem |-> cache[k].val, created |-> FALSE]
    ELSE [cache |-> LruInsert(cache, [key |-> loop, val |-> fresh]),
          sem |-> fresh, created |-> TRUE]

SInit ==
    /\ curLoop \in Loops \cup {0}
    /\ semCache = <<>>
    /\ madeUnder = <<>>
    /\ handedS = {}
    /\ slast = [loop |-> 0, sem |-> 0, raised |-> FALSE, created |-> FALSE]

SOff ==
    /\ curLoop = 0
    /\ semCache = <<>>
    /\ madeUnder = <<>>
    /\ handedS = {}
    /\ slast = [loop |-> 0, sem |-> 0, raised |-> FALSE, created |-> FALSE]

\* lines 142-144 with a current event loop; `created` says whether line 150 ran.
GetSemaphore(created) ==
    LET fresh == Len(madeUnder) + 1
        r == get_semaphore(semCache, curLoop, fresh)
    IN
    /\ curLoop # 0
    /\ r.created = created
    /\ created => Len(madeUnder) < MaxSems
    /\ semCache' = r.cache
    /\ madeUnder' = IF created THEN Append(madeUnder, curLoop) ELSE madeUnder
    /\ handedS' = handedS \cup {<<curLoop, r.sem>>}
    /\ slast' = [loop |-> curLoop, sem |-> r.sem, raised |-> FALSE,
                 created |-> created]
    /\ UNCHANGED curLoop
    /\ UNCHANGED <<gvars, cvars, avars, lvars>>

\* the cache holds a Semaphore for the current loop
GetSemaphoreHit ==
    /\ Len(semCache) > 0
    /\ GetSemaphore(FALSE)
\* it does not: line 150 creates one
GetSemaphoreMiss ==
    /\ curLoop # 0
    /\ GetSemaphore(TRUE)

\* line 144 raises: there is no current event loop
GetSemaphoreNoLoop ==
    /\ curLoop = 0
    /\ slast' = [slast EXCEPT !.raised = TRUE]
    /\ UNCHANGED <<curLoop, semCache, madeUnder, handedS>>
    /\ UNCHANGED <<gvars, cvars, avars, lvars>>

\* The current event loop changes (asyncio.set_event_loop, a new
\* asyncio.run, a call from another thread).
SwitchLoop(l) ==
    /\ l # curLoop
    /\ curLoop' = l
    /\ UNCHANGED <<semCache, madeUnder, handedS, slast>>
    /\ UNCHANGED <<gvars, cvars, avars, lvars>>

\* =========================================================================
\* get_event_loop                                            (lines 97-105)
\* =========================================================================

Threads == 1..NumThreads

\* line 101: the prefix the message is tested for, word by word
NoLoopPrefix == <<"There", "is", "no", "current", "event", "loop", "in", "thread">>

\* messages of the RuntimeErrors asyncio.get_event_loop may raise
NoLoopMessage == NoLoopPrefix \o <<"'Thread-1'.">>
OtherMessages ==
    { <<"Event", "loop", "is", "closed">>,
      <<"There", "is", "no", "current", "event", "loop">> }

\* str.startswith
StartsWith(str, prefix) ==
    /\ Len(str) >= Len(prefix)
    /\ SubSeq(str, 1, Len(prefix)) = prefix

\* What asyncio.get_event_loop() (line 99) does for a thread whose current
\* loop is cur: it returns the loop, or the policy creates and installs one
\* (main thread, older Pythons), or it raises a RuntimeError.
LookupResponses(t, cur) ==
    (IF cur # 0 THEN {[kind |-> "loop", msg |-> <<>>]} ELSE {}) \cup
    (IF cur = 0 /\ t = 1 THEN {[kind |-> "policy", msg |-> <<>>]} ELSE {}) \cup
    (IF cur = 0 THEN {[kind |-> "error", msg |-> NoLoopMessage]} ELSE {}) \cup
    { [kind |-> "error", msg |-> m] : m \in OtherMessages }

\* A get_event_loop that forgets line 104: the new loop is not installed.
get_event_loop_uninstalled(cur, resp, fresh) ==
    IF resp.kind = "loop"
    THEN [current |-> cur, ret |-> cur, raised |-> FALSE, made |-> "none"]
    ELSE IF resp.kind = "policy"
    THEN [current |-> fresh, ret |-> fresh, raised |-> FALSE, made |-> "policy"]
    ELSE IF ~StartsWith(resp.msg, NoLoopPrefix)
    THEN [current |-> cur, ret |-> 0, raised |-> TRUE, made |-> "none"]
    ELSE [current |-> cur, ret |-> fresh, raised |-> FALSE, made |-> "code"]

\* lines 97-105: the thread's current loop after the call, the loop
\* returned, whether the call raised, and who made a new loop.
get_event_loop(cur, resp, fresh) ==
    IF resp.kind = "loop"
    THEN [current |-> cur, ret |-> cur, raised |-> FALSE, made |-> "none"]
    ELSE IF resp.kind = "policy"
    THEN [current |-> fresh, ret |-> fresh, raised |-> FALSE, made |-> "policy"]
    ELSE IF ~StartsWith(resp.msg, NoLoopPrefix)
    THEN [current |-> cur, ret |-> 0, raised |-> TRUE, made |-> "none"]
    ELSE [current |-> fresh, ret |-> fresh, raised |-> FALSE, made |-> "code"]

NoLoopCall == [t |-> 0, pre |-> 0, resp |-> [kind |-> "none", msg |-> <<>>],
               ret |-> 0, raised |-> FALSE, made |-> "none", post |-> 0,
               loops |-> 0]

LInit ==
    /\ current = [t \in Threads |-> 0]
    /\ nloops = 0
    /\ lcreated = [t \in Threads |-> 0]
    /\ lret = [t \in Threads |-> 0]
    /\ llast = NoLoopCall

LOff ==
    /\ current = <<>>
    /\ nloops = 0
    /\ lcreated = <<>>
    /\ lret = <<>>
    /\ llast = NoLoopCall

\* One call of get_event_loop() in thread t, the lookup answering resp.
GetEventLoop(t, resp) ==
    LET r == get_event_loop(current[t], resp, nloops + 1) IN
    /\ resp \in LookupResponses(t, current[t])
    /\ r.made # "none" => nloops < MaxLoops
    /\ current' = [current EXCEPT ![t] = r.current]
    /\ nloops' = IF r.made # "none" THEN nloops + 1 ELSE nloops
    /\ lcreated' = IF r.made = "code" THEN [lcreated EXCEPT ![t] = @ + 1] ELSE lcreated
    /\ lret' = IF r.raised THEN lret ELSE [lret EXCEPT ![t] = r.ret]
    /\ llast' = [t |-> t, pre |-> current[t], resp |-> resp, ret |-> r.ret,
                 raised |-> r.raised, made |-> r.made, post |-> r.current,
                 loops |-> nloops' - nloops]
    /\ UNCHANGED <<gvars, cvars, avars, svars>>

\* line 99 returns the thread's loop
GetEventLoopFound(t) ==
    /\ current[t] # 0
    /\ GetEventLoop(t, [kind |-> "loop", msg |-> <<>>])
\* line 99 returns a loop the policy has just created and installed
GetEventLoopPolicy(t) ==
    /\ current[t] = 0
    /\ GetEventLoop(t, [kind |-> "policy", msg |-> <<>>])
\* line 99 raises "There is no current event loop in thread ...": lines 103-104
GetEventLoopNew(t) ==
    /\ current[t] = 0
    /\ GetEventLoop(t, [kind |-> "error", msg |-> NoLoopMessage])
\* line 99 raises another RuntimeError: line 102
GetEventLoopReraise(t) ==
    /\ t \in Threads
    /\ \E m \in OtherMessages : GetEventLoop(t, [kind |-> "error", msg |-> m])

\* The thread's current loop is changed from outside get_event_loop
\* (asyncio.set_event_loop with another loop or with None).
SetEventLoop(t, l) ==
    /\ l # current[t]
    /\ current' = [current EXCEPT ![t] = l]
    /\ lcreated' = [lcreated EXCEPT ![t] = 0]
    /\ lret' = [lret EXCEPT ![t] = 0]
    /\ UNCHANGED <<nloops, llast>>
    /\ UNCHANGED <<gvars, cvars, avars, svars>>

\* =========================================================================
\* specifications
\* =========================================================================

InitGather == GInit /\ COff /\ AOff /\ SOff /\ LOff
NextGather ==
    \/ GatherCall
    \/ \E i \in DOMAIN plan : OpFinish(i)
    \/ GatherRaise
    \/ GatherReturn
SpecGather == InitGather /\ [][NextGather]_vars

InitChain == GOff /\ CInit /\ AOff /\ SOff /\ LOff
NextChain ==
    \/ \E w \in W3s : ChainIdCached(w)
    \/ \E w \in W3s : ChainIdRead(w)
    \/ \E w \in W3s : ChainIdFailRetry(w)
    \/ \E w \in W3s : ChainIdFailRaise(w)
    \/ \E w \in W3s, v \in ChainValues : NodeChange(w, v)
SpecChain == InitChain /\ [][NextChain]_vars

InitAsync == GOff /\ COff /\ AInit /\ SOff /\ LOff
NextAsync ==
    \/ \E w \in DOMAIN w3 : GetAsyncCached(w)
    \/ \E w \in DOMAIN w3 : GetAsyncSelf(w)
    \/ \E w \in DOMAIN w3 : GetAsyncBuilt(w)
    \/ \E w \in DOMAIN w3 : GetAsyncRaised(w)
SpecAsync == InitAsync /\ [][NextAsync]_vars

InitSemaphore == GOff /\ COff /\ AOff /\ SInit /\ LOff
NextSemaphore ==
    \/ GetSemaphoreHit
    \/ GetSemaphoreMiss
    \/ GetSemaphoreNoLoop
    \/ \E l \in Loops \cup {0} : SwitchLoop(l)
SpecSemaphore == InitSemaphore /\ [][NextSemaphore]_vars

InitLoop == GOff /\ COff /\ AOff /\ SOff /\ LInit
NextLoop ==
    \/ \E t \in Threads : GetEventLoopFound(t)
    \/ \E t \in Threads : GetEventLoopPolicy(t)
    \/ \E t \in Threads : GetEventLoopNew(t)
    \/ \E t \in Threads : GetEventLoopReraise(t)
    \/ \E t \in Threads, l \in 0..nloops : SetEventLoop(t, l)
SpecLoop == InitLoop /\ [][NextLoop]_vars

\* =========================================================================
\* properties
\* =========================================================================

GatherEnded == gpc \in {"raised", "returned"}
Failed == { i \in DOMAIN plan : plan[i].how = "raise" }
FirstFailed == CHOOSE i \in Failed : \A j \in Failed : i <= j

\* C1: gather raises if and only if at least one of the coroutines it was
\* given ended by raising, whatever was raised and whatever was returned.
C1_RaisesIffSomeFailed ==
    GatherEnded => (gpc = "raised" <=> Failed # {})

\* C3: when gather raises, it raises the exception of the failed coroutine
\* with the lowest position in the input, whatever the order of the failures
\* in time.
C3_RaisesLowestFailure ==
    gpc = "raised" =>
        /\ Failed # {}
        /\ gout.exc = ObjectOf(FirstFailed, plan[FirstFailed])

\* C4: when gather raises or returns, every coroutine has finished with its
\* own outcome; an early failure stops, cancels or skips none of the others.
C4_EndsAfterAllFinished ==
    GatherEnded =>
        /\ Len(order) = Len(plan)
        /\ \A i \in DOMAIN plan :
              opState[i] = "done" /\ results[i] = ObjectOf(i, plan[i])

\* gather raised although the coroutine that failed was the first to finish
\* and others finished after it
C4_Witness ==
    /\ gpc = "raised"
    /\ Len(order) >= 3
    /\ plan[order[1]] = [how |-> "raise", cls |-> "Exception"]
    /\ order[1] = Len(plan)

\* C2: once a chain_id call for a handle has succeeded, w.eth.chain_id of
\* that handle is never read again, and every later call returns what that
\* first successful call returned, whatever the node reports by then.
C2_CachedAfterFirstSuccess ==
    /\ [](clast.kind \in {"read", "cached"} =>
            clast.w \in DOMAIN first /\ clast.ret = first[clast.w])
    /\ [][\A w \in DOMAIN first : queries'[w] = queries[w]]_vars

\* a later call answered from the cache although the node now reports
\* another chain id
C2_Witness ==
    /\ clast.kind = "cached"
    /\ clast.ret # nodeVal[clast.w]
    /\ queries[clast.w] >= 1

\* C9: a chain_id attempt whose read raises leaves chainids as it was, with
\* no entry for the handle, so the next attempt for it asks the node again;
\* an entry appears only with a successful read, holds the value that read
\* returned, and is kept.
C9_FailureLeavesCacheUnchanged ==
    /\ [][(queries' # queries /\ clast'.kind = "failed") =>
            (chainids' = chainids /\ clast'.w \notin DOMAIN chainids')]_vars
    /\ [][(clast.kind = "failed" /\ clast'.w = clast.w) =>
            clast'.kind # "cached"]_vars
    /\ [][\A w \in W3s :
            IF w \in DOMAIN chainids
            THEN w \in DOMAIN chainids' /\ chainids'[w] = chainids[w]
            ELSE w \in DOMAIN chainids' =>
                    /\ clast' = [w |-> w, kind |-> "read",
                                 ret |-> nodeVal[w], node |-> nodeVal[w]]
                    /\ chainids'[w] = nodeVal[w]]_vars

\* a read failed with another handle already cached, and the retry then
\* read the node
C9_Witness ==
    /\ clast.kind = "read"
    /\ queries[clast.w] >= 2
    /\ \E v \in W3s : v # clast.w /\ v \in DOMAIN chainids

\* C5: all get_async_w3 calls for one handle return the same adapter; an
\* adapter is constructed only on the first call for a handle that is not
\* asynchronous; an asynchronous handle is returned as itself and cached
\* under itself; an entry of async_w3s is never overwritten or removed.
C5_OneAdapterPerHandle ==
    /\ [](/\ \A p, q \in handedA : p[1] = q[1] => p[2] = q[2]
          /\ \A w \in UserW3s : built[w] <= 1 /\ (built[w] = 1 => ~IsAsync(w3[w]))
          /\ Cardinality(DOMAIN w3) <= 2 * NumHandles
          /\ \A p \in handedA :
                IsAsync(w3[p[1]]) =>
                    /\ p[2] = p[1]
                    /\ p[1] \in DOMAIN async_w3s
                    /\ async_w3s[p[1]] = p[1])
    /\ [][/\ \A w \in DOMAIN async_w3s :
                w \in DOMAIN async_w3s' /\ async_w3s'[w] = async_w3s[w]
          /\ DOMAIN w3' # DOMAIN w3 =>
                alast'.w \notin called /\ ~IsAsync(w3[alast'.w])]_vars

\* a second call for a synchronous handle answered from the cache, its
\* adapter having been passed to get_async_w3 too
C5_Witness ==
    /\ alast.kind = "cached"
    /\ alast.w \in UserW3s
    /\ built[alast.w] = 1
    /\ alast.ret # alast.w
    /\ alast.ret \in DOMAIN async_w3s

\* C6: every handle get_async_w3 has returned has a timeout of at least
\* AIOHTTP_TIMEOUT.total; a timeout at or above the floor is left as it
\* was, one below it is replaced by exactly the floor.
C6_TimeoutAtLeastFloor ==
    /\ \A p \in handedA :
          /\ TimeoutReadable(w3[p[2]].timeout)
          /\ w3[p[2]].timeout.total >= AIOHTTP_TIMEOUT
    /\ alast.kind = "self" =>
          w3[alast.ret].timeout =
              IF alast.before.total >= AIOHTTP_TIMEOUT THEN alast.before
              ELSE [form |-> "ClientTimeout", total |-> AIOHTTP_TIMEOUT]

\* an asynchronous handle with a numeric timeout below the floor was
\* returned
C6_Witness ==
    /\ alast.kind = "self"
    /\ alast.before.form = "number"
    /\ alast.before.total < AIOHTTP_TIMEOUT

\* C7: any two _get_semaphore calls made while the same event loop is
\* current return the same Semaphore, so at most one is ever created per
\* event loop.
C7_OneSemaphorePerLoop ==
    \A p, q \in handedS : p[1] = q[1] => p[2] = q[2]

\* C7 as amended: two _get_semaphore calls made while the same event loop
\* is current, with no _get_semaphore call under another loop between them,
\* return the same Semaphore, and the second creates none.
C7_SameSemaphoreBetweenSwitches ==
    /\ [][(slast.loop # 0 /\ slast'.loop = slast.loop) =>
            slast'.sem = slast.sem]_vars
    /\ [][Len(madeUnder') > Len(madeUnder) => slast.loop # curLoop]_vars

\* a call answered from the cache after the loop had been switched away and
\* back
C7_Witness ==
    /\ ~slast.created
    /\ slast.loop = curLoop
    /\ \E p, q \in handedS : p[1] = q[1] /\ p[2] # q[2]

\* C8: the Semaphore a _get_semaphore call returns was created by a call
\* made while the same event loop was current.
C8_SemaphoreOfCurrentLoop ==
    \A p \in handedS :
        p[2] \in 1..Len(madeUnder) /\ madeUnder[p[2]] = p[1]

\* a call answered from the cache while Semaphores of other loops exist
C8_Witness ==
    /\ ~slast.created
    /\ slast.loop = curLoop
    /\ slast.sem # 0
    /\ \E k \in 1..Len(madeUnder) : madeUnder[k] # curLoop

\* C10: get_event_loop returns the thread's current loop when there is one;
\* it creates a loop only when the lookup raises the "There is no current
\* event loop in thread" error, and installs it before returning it; any
\* other RuntimeError is re-raised with no loop created or installed.  So
\* the loop returned is the thread's current loop, and calls repeated with
\* no loop change between them return one loop and create at most one.
C10_GetEventLoop ==
    /\ [](llast.t # 0 =>
            /\ llast.resp.kind = "loop" =>
                  /\ ~llast.raised /\ llast.ret = llast.pre
                  /\ llast.post = llast.pre /\ llast.loops = 0
            /\ llast.made = "code" <=>
                  /\ llast.resp.kind = "error"
                  /\ StartsWith(llast.resp.msg, NoLoopPrefix)
            /\ llast.made = "code" =>
                  /\ ~llast.raised /\ llast.loops = 1
                  /\ llast.ret # llast.pre
            /\ (llast.resp.kind = "error" /\ llast.made # "code") =>
                  /\ llast.raised /\ llast.post = llast.pre /\ llast.loops = 0
            /\ ~llast.raised => llast.ret # 0 /\ llast.post = llast.ret)
    /\ [](\A t \in Threads :
            /\ lcreated[t] <= 1
            /\ lret[t] # 0 => lret[t] = current[t])
    /\ [][\A t \in Threads :
            (lret[t] # 0 /\ lret'[t] # 0) => lret'[t] = lret[t]]_vars

\* a thread without a loop got a new one, and a repeated call found it
C10_Witness ==
    /\ llast.t # 0
    /\ llast.resp.kind = "loop"
    /\ lcreated[llast.t] = 1
    /\ llast.t # 1


====
